---- MODULE Spec2Model ----
(***************************************************************************)
(* ZipSync: packing configured sources into a ZIP archive, verifying the   *)
(* archive, and syncing an extracted archive back to the source paths.     *)
(*                                                                         *)
(* A path string is a sequence of one-character strings, so that the       *)
(* string-shape tests of the code (ends_with('/'), Path::extension,        *)
(* Path::parent, Path::file_name) are computed on the characters.          *)
(***************************************************************************)
EXTENDS Integers, Sequences, FiniteSets, TLC

(***************************************************************************)
(* Strings and std::path::Path                                             *)
(***************************************************************************)

\* Option::None of an Option<String> / Option<&Path>.
None == <<"<none>">>

Slash == <<"/">>

EndsWith(s, c) == Len(s) > 0 /\ s[Len(s)] = c

StartsWith(s, p) == Len(p) <= Len(s) /\ SubSeq(s, 1, Len(p)) = p

HasRoot(s) == Len(s) > 0 /\ s[1] = "/"

\* The pieces of s between separators: "a//b/" is <<"a", "", "b", "">>.
RECURSIVE Split(_)
Split(s) ==
    IF s = <<>> THEN << <<>> >>
    ELSE LET rest == Split(Tail(s))
         IN  IF Head(s) = "/"
             THEN << <<>> >> \o rest
             ELSE << <<Head(s)>> \o Head(rest) >> \o Tail(rest)

\* A leading "." is kept as a component (CurDir) when the path has no root.
IncludeCurDir(s) ==
    /\ ~HasRoot(s)
    /\ Len(s) > 0 /\ s[1] = "."
    /\ (Len(s) = 1 \/ s[2] = "/")

\* Path::components: empty pieces and inner "." pieces are no components;
\* the root is the component "/".
Components(s) ==
    LET segs == Split(s)
        keep(i) == /\ segs[i] # <<>>
                   /\ (segs[i] = <<".">> => (i = 1 /\ IncludeCurDir(s)))
        F[i \in 0..Len(segs)] ==
            IF i = 0 THEN <<>>
            ELSE IF keep(i) THEN Append(F[i-1], segs[i]) ELSE F[i-1]
    IN  (IF HasRoot(s) THEN <<Slash>> ELSE <<>>) \o F[Len(segs)]

\* Path::file_name: the last component when it is a normal one.
FileName(s) ==
    LET c == Components(s)
    IN  IF c = <<>> THEN None
        ELSE LET l == c[Len(c)]
             IN  IF l \in {Slash, <<".">>, <<".", ".">>} THEN None ELSE l

\* Path::extension().is_some(): the file name has a '.' that is not its
\* first character.
HasExtension(s) ==
    LET f == FileName(s)
    IN  f # None /\ \E i \in 2..Len(f) : f[i] = "."

\* Path::file_stem: the file name up to its last '.', the whole name when
\* the only '.' leads it.
FileStem(s) ==
    LET f == FileName(s)
    IN  IF f = None THEN None
        ELSE IF \E i \in 2..Len(f) : f[i] = "."
             THEN LET i == CHOOSE i \in 2..Len(f) :
                               f[i] = "." /\ \A j \in (i+1)..Len(f) : f[j] # "."
                  IN  SubSeq(f, 1, i - 1)
             ELSE f

\* What a path keeps at its front whatever is taken from its back: the
\* root, or a leading ".".
LenBeforeBody(s) ==
    (IF HasRoot(s) THEN 1 ELSE 0) + (IF IncludeCurDir(s) THEN 1 ELSE 0)

\* Components::trim_right: trailing separators and trailing "." pieces are
\* dropped, down to `keep` characters.
RECURSIVE TrimRight(_, _)
TrimRight(s, keep) ==
    LET n == Len(s)
    IN  IF n <= keep THEN s
        ELSE IF s[n] = "/" THEN TrimRight(SubSeq(s, 1, n - 1), keep)
        ELSE IF s[n] = "." /\ n >= 2 /\ s[n-1] = "/"
             THEN TrimRight(SubSeq(s, 1, n - 1), keep)
        ELSE s

\* The index of the last separator of s, 0 when it has none.
LastSlash(s) ==
    IF \E i \in 1..Len(s) : s[i] = "/"
    THEN CHOOSE i \in 1..Len(s) : s[i] = "/" /\ \A j \in (i+1)..Len(s) : s[j] # "/"
    ELSE 0

\* Path::parent: the path without its last component; None for the empty
\* path and for the root.
Parent(s) ==
    LET keep == LenBeforeBody(s)
        t    == TrimRight(s, keep)
    IN  IF Components(s) = <<>> \/ Components(s) = <<Slash>> THEN None
        ELSE IF Len(t) <= keep /\ ~IncludeCurDir(s) THEN None
        ELSE IF Len(t) <= keep THEN <<>>
        ELSE TrimRight(SubSeq(t, 1, LastSlash(t)), keep)

\* Path::join / PathBuf::push: an absolute path replaces the base.
Join(base, p) ==
    IF HasRoot(p) THEN p
    ELSE IF base = <<>> THEN p
    ELSE IF EndsWith(base, "/") THEN base \o p
    ELSE base \o Slash \o p

\* The orders in which a HashSet may be iterated.
Perms(S) ==
    {p \in [1..Cardinality(S) -> S] : \A i, j \in 1..Cardinality(S) : p[i] = p[j] => i = j}

\* The elements of a set in some order.
RECURSIVE SeqOfSet(_)
SeqOfSet(S) ==
    IF S = {} THEN <<>>
    ELSE LET x == CHOOSE x \in S : TRUE
         IN  <<x>> \o SeqOfSet(S \ {x})

Reverse(s) == [k \in 1..Len(s) |-> s[Len(s) + 1 - k]]

\* Two of the orders in which a HashSet may be iterated: an order and its
\* reverse. (Every order is taken where the reconstruction is checked on
\* its own, under SpecRecon.)
TwoOrders(S) == {SeqOfSet(S), Reverse(SeqOfSet(S))}

\* All strings over the characters C of length at most n.
RECURSIVE StringsUpTo(_, _)
StringsUpTo(C, n) ==
    IF n = 0 THEN {<<>>}
    ELSE LET shorter == StringsUpTo(C, n - 1)
         IN  shorter \cup {Append(s, c) : s \in shorter, c \in C}

(***************************************************************************)
(* State                                                                   *)
(***************************************************************************)
VARIABLES
    pc,             \* where the run is
    tasks,          \* config.copy_tasks, cleaned: a sequence of [source, target]
    fs,             \* the filesystem: absolute path -> node
    zipFile,        \* the file at config.zip_path: [state, entries]
    missing_items,  \* ZipCreatorController.missing_items: source -> target
    idx,            \* the index of the task a loop is at
    zip_files,      \* check_zip's zip_files: the present-set
    check_result,   \* what check_zip returned
    faults,         \* I/O failures the environment may still inject
    log,            \* history: what each loop iteration did
    sync_tasks,     \* ZipReaderController.sync_tasks
    outputfolder,   \* ZipReaderController.outputfolder
    arg,            \* the input of a function under check
    ret             \* its result

vars == <<pc, tasks, fs, zipFile, missing_items, idx, zip_files, check_result,
          faults, log, sync_tasks, outputfolder, arg, ret>>

progVars == <<tasks, fs, zipFile, missing_items, idx, zip_files, check_result,
              faults, log, sync_tasks, outputfolder>>

\* The program's variables when only a function is under check.
ProgIdle ==
    /\ tasks = <<>>
    /\ fs = <<>>
    /\ zipFile = [state |-> "absent", entries |-> <<>>]
    /\ missing_items = <<>>
    /\ idx = 0
    /\ zip_files = {}
    /\ check_result = "none"
    /\ faults = 0
    /\ log = <<>>
    /\ sync_tasks = <<>>
    /\ outputfolder = None

(***************************************************************************)
(* Path mapping: ZipCreatorController::get_target_file_path                *)
(***************************************************************************)

\* A mutation: the extension test is made before the trailing-separator test.
GetTargetFilePathExtFirst(filename, target) ==
    IF target = <<>> THEN filename
    ELSE IF HasExtension(target) THEN target
    ELSE IF EndsWith(target, "/") THEN target \o filename
    ELSE target \o Slash \o filename

GetTargetFilePath(filename, target) ==
    IF target = <<>> THEN filename
    ELSE IF EndsWith(target, "/") THEN target \o filename
    ELSE IF ~HasExtension(target) THEN target \o Slash \o filename
    ELSE target

\* Bounds of the mapping check: targets are all strings of at most
\* MaxTargetLen characters over TargetChars.
MaxTargetLen == 3
TargetChars == {"m", "/", "."}
MapTargets == StringsUpTo(TargetChars, MaxTargetLen)
MapFileNames == {<<"f">>, <<"f", ".", "t">>, <<".", "f">>}

MapInit ==
    /\ pc = "map"
    /\ arg \in [filename : MapFileNames, target : MapTargets]
    /\ ret = None
    /\ ProgIdle

MapCall ==
    /\ pc = "map"
    /\ ret' = GetTargetFilePath(arg.filename, arg.target)
    /\ pc' = "mapped"
    /\ UNCHANGED <<arg, progVars>>

MapNext == MapCall

SpecMap == MapInit /\ [][MapNext]_vars

\* C4: the forward file mapping follows the four-row table, the rows tested
\* in this order: empty target -> filename; target ending with a separator
\* -> target + filename; target without an extension -> target + "/" +
\* filename; otherwise the target verbatim.
C4_MappingTable ==
    pc = "mapped" =>
        LET t == arg.target
            f == arg.filename
            row1 == t = <<>>
            row2 == ~row1 /\ t[Len(t)] = "/"
            row3 == ~row1 /\ ~row2 /\ ~HasExtension(t)
            row4 == ~row1 /\ ~row2 /\ ~row3
        IN  /\ row1 => ret = f
            /\ row2 => ret = t \o f
            /\ row3 => ret = t \o <<"/">> \o f
            /\ row4 => ret = t

\* A target that both ends with a separator and has an extension: the
\* separator row wins.
C4_Witness ==
    /\ pc = "mapped"
    /\ arg.target = <<"m", ".", "/">>
    /\ HasExtension(arg.target)
    /\ ret = <<"m", ".", "/">> \o arg.filename

(***************************************************************************)
(* ZipCreatorController::add_reconstructed_dirs_to_file_list               *)
(***************************************************************************)

\* A mutation: only the parent of the path is inserted.
WalkParentsOneStep(current, reconstructed_dirs) ==
    IF Parent(current) = None \/ Parent(current) = <<>>
    THEN reconstructed_dirs
    ELSE reconstructed_dirs \cup {Parent(current)}

\* The inner while loop for one path: parents are inserted until the parent
\* is None, empty or already reconstructed.
RECURSIVE WalkParents(_, _)
WalkParents(current, reconstructed_dirs) ==
    LET parent == Parent(current)
    IN  IF parent = None \/ parent = <<>> \/ parent \in reconstructed_dirs
        THEN reconstructed_dirs
        ELSE WalkParents(parent, reconstructed_dirs \cup {parent})

\* The for loop over the set, taken in the given iteration order.
RECURSIVE ReconstructedDirs(_, _)
ReconstructedDirs(order, reconstructed_dirs) ==
    IF order = <<>> THEN reconstructed_dirs
    ELSE ReconstructedDirs(Tail(order), WalkParents(Head(order), reconstructed_dirs))

AddReconstructedDirsToFileList(files, order) ==
    files \cup ReconstructedDirs(order, {})

\* Bounds of the reconstruction check: listings of at most MaxEntries names
\* out of EntryNames.
MaxEntries == 3
EntryNames ==
    { <<"a", "/", "b", "/", "f">>, <<"a", "/", "b", "/">>, <<"a", "/">>,
      <<"a", "/", "f">>, <<"f">>, <<"b", "/">>, <<"b", "/", "a", "/", "f">>,
      <<"a", "/", "b", "/", "g">> }
Listings == {l \in SUBSET EntryNames : Cardinality(l) \in 1..MaxEntries}

ReconInit ==
    /\ pc = "recon"
    /\ arg \in Listings
    /\ ret = None
    /\ ProgIdle

ReconCall ==
    /\ pc = "recon"
    /\ \E order \in Perms(arg) : ret' = AddReconstructedDirsToFileList(arg, order)
    /\ pc' = "reconstructed"
    /\ UNCHANGED <<arg, progVars>>

ReconNext == ReconCall

SpecRecon == ReconInit /\ [][ReconNext]_vars

\* The proper ancestor directories of an entry path, in trailing-separator
\* form: its proper prefixes that end with a separator.
AncestorDirs(e) ==
    {SubSeq(e, 1, k) : k \in {k \in 1..(Len(e) - 1) : e[k] = "/"}}

\* C5: after reconstruction every proper ancestor directory of every entry
\* is in the present-set in trailing-separator form (so a listing of only
\* "a/b/f" yields a set holding "a/" and "a/b/").
C5_AncestorsWithSeparator ==
    pc = "reconstructed" =>
        \A e \in arg : \A d \in AncestorDirs(e) : d \in ret

(***************************************************************************)
(* The filesystem                                                          *)
(***************************************************************************)

\* A node of the filesystem. A path that is not in the domain of fs is
\* absent; the root directory always exists.
Dir == [kind |-> "dir", content |-> 0]
Other == [kind |-> "other", content |-> 0]
Absent == [kind |-> "absent", content |-> 0]
File(c) == [kind |-> "file", content |-> c]

\* The working directory of the process.
Cwd == << <<"w">> >>

\* The result of resolving a path one of whose directories does not exist
\* or is no directory.
ENOENT == << <<"<enoent>">> >>

NodeAt(f, p) ==
    IF p = <<>> THEN Dir
    ELSE IF p \in DOMAIN f THEN f[p]
    ELSE Absent

RECURSIVE WalkSegs(_, _, _)
WalkSegs(f, cur, segs) ==
    IF segs = <<>> THEN cur
    ELSE IF NodeAt(f, cur).kind # "dir" THEN ENOENT
    ELSE LET g == Head(segs)
         IN  IF g = <<>> \/ g = <<".">> THEN WalkSegs(f, cur, Tail(segs))
             ELSE IF g = <<".", ".">>
                  THEN WalkSegs(f, IF cur = <<>> THEN cur
                                   ELSE SubSeq(cur, 1, Len(cur) - 1), Tail(segs))
             ELSE WalkSegs(f, Append(cur, g), Tail(segs))

\* The absolute path a path string names.
Resolve(f, s) ==
    IF s = <<>> THEN ENOENT
    ELSE WalkSegs(f, IF HasRoot(s) THEN <<>> ELSE Cwd, Split(s))

Stat(f, s) == NodeAt(f, Resolve(f, s))

Exists(f, s) == Stat(f, s).kind # "absent"
IsFile(f, s) == Stat(f, s).kind = "file"
IsDir(f, s) == Stat(f, s).kind = "dir"

(***************************************************************************)
(* The archive file at config.zip_path                                     *)
(***************************************************************************)

\* An entry of the archive. ZipFile::is_dir is decided by the name.
Entry(name, content) == [name |-> name, content |-> content]
EntryIsDir(e) == EndsWith(e.name, "/")

\* ZipWriter::add_directory appends a separator to a name that has none.
AddDirectoryEntry(name) ==
    Entry(IF EndsWith(name, "/") THEN name ELSE name \o Slash, 0)

EntryNamesOf(entries) == {entries[k].name : k \in 1..Len(entries)}

(***************************************************************************)
(* ZipCreatorController::check_zip                                         *)
(***************************************************************************)

\* A mutation: the missing items are never consulted.
CheckMissingNever(missing, task_source) == FALSE

CheckMissing(missing, task_source) == task_source \in DOMAIN missing

\* TRUE when the file is NOT in the archive.
CheckIfFileInZip(files, task) ==
    LET filename == FileName(task.source)
        expected_path == GetTargetFilePath(filename, task.target)
    IN  expected_path \notin files

\* A mutation: the expected directory is always the source's name.
ExpectedDirIgnoringTarget(task) ==
    (IF FileName(task.source) = None THEN task.source
     ELSE FileName(task.source)) \o Slash

ExpectedDir(task) ==
    IF task.target = <<>>
    THEN (IF FileName(task.source) = None THEN task.source
          ELSE FileName(task.source)) \o Slash
    ELSE IF EndsWith(task.target, "/") THEN task.target
    ELSE task.target \o Slash

\* TRUE when the directory is NOT in the archive.
CheckIfDirectoryInZip(files, task) ==
    LET expected_dir == ExpectedDir(task)
        dir_exists == \/ expected_dir \in files
                      \/ \E p \in files : StartsWith(p, expected_dir)
    IN  ~dir_exists

\* A mutation: a source that is neither a file nor a directory passes.
CheckOutcomeLenient(f, files, missing, task) ==
    IF CheckMissing(missing, task.source) THEN "skipped"
    ELSE IF IsFile(f, task.source)
         THEN (IF CheckIfFileInZip(files, task) THEN "failed" ELSE "passed")
    ELSE IF IsDir(f, task.source)
         THEN (IF CheckIfDirectoryInZip(files, task) THEN "failed" ELSE "passed")
    ELSE "passed"

\* One iteration of check_zip's loop: "skipped", "passed" or "failed".
CheckOutcome(f, files, missing, task) ==
    IF CheckMissing(missing, task.source) THEN "skipped"
    ELSE IF IsFile(f, task.source)
         THEN (IF CheckIfFileInZip(files, task) THEN "failed" ELSE "passed")
    ELSE IF IsDir(f, task.source)
         THEN (IF CheckIfDirectoryInZip(files, task) THEN "failed" ELSE "passed")
    ELSE "failed"

\* get_file_list_from_zip: the names of the archive, with the reconstructed
\* directories; an archive that cannot be read ends check_zip with Err.
GetFileList ==
    /\ pc = "check_list"
    /\ \/ /\ zipFile.state = "valid"
          /\ \E order \in TwoOrders(EntryNamesOf(zipFile.entries)) :
                zip_files' = AddReconstructedDirsToFileList(
                                 EntryNamesOf(zipFile.entries), order)
          /\ pc' = "check"
          /\ idx' = 1
          /\ UNCHANGED check_result
          /\ UNCHANGED faults
       \/ /\ zipFile.state # "valid" \/ faults > 0
          /\ faults' = IF zipFile.state # "valid" THEN faults ELSE faults - 1
          /\ check_result' = "err"
          /\ pc' = "done"
          /\ UNCHANGED <<zip_files, idx>>
    /\ UNCHANGED <<tasks, fs, zipFile, missing_items, log,
                   sync_tasks, outputfolder, arg, ret>>

CheckTask ==
    /\ pc = "check"
    /\ idx <= Len(tasks)
    /\ LET outcome == CheckOutcome(fs, zip_files, missing_items, tasks[idx])
       IN  /\ log' = Append(log, [step |-> "check", idx |-> idx, outcome |-> outcome])
           /\ IF outcome = "failed"
              THEN check_result' = "false" /\ pc' = "done" /\ UNCHANGED idx
              ELSE idx' = idx + 1 /\ UNCHANGED <<pc, check_result>>
    /\ UNCHANGED <<tasks, fs, zipFile, missing_items, zip_files, faults,
                   sync_tasks, outputfolder, arg, ret>>

CheckEnd ==
    /\ pc = "check"
    /\ idx > Len(tasks)
    /\ check_result' = "true"
    /\ pc' = "done"
    /\ UNCHANGED <<tasks, fs, zipFile, missing_items, idx, zip_files, faults,
                   log, sync_tasks, outputfolder, arg, ret>>

(***************************************************************************)
(* The configuration and the world the runs start in                       *)
(***************************************************************************)

Task(source, target) == [source |-> source, target |-> target]

srcFile == <<"f", ".", "t">>
srcDir == <<"d">>
srcDirSlash == <<"d", "/">>
srcAbsDirSlash == <<"/", "w", "/", "d", "/">>
srcAbsent == <<"n">>
srcOther == <<"o">>

\* /w/f.t is a file, /w/d a directory holding the file g and the empty
\* directory s, /w/o neither a file nor a directory; /w/n does not exist.
World ==
    ( << <<"w">> >> :> Dir ) @@
    ( << <<"w">>, srcFile >> :> File(1) ) @@
    ( << <<"w">>, <<"d">> >> :> Dir ) @@
    ( << <<"w">>, <<"d">>, <<"g">> >> :> File(2) ) @@
    ( << <<"w">>, <<"d">>, <<"s">> >> :> Dir ) @@
    ( << <<"w">>, <<"o">> >> :> Other )

\* The number of tasks of a configuration.
MaxTasks == 2

TaskLists(T) ==
    UNION {[1..n -> T] : n \in 1..MaxTasks}

SourcesOf(ts) == {ts[k].source : k \in 1..Len(ts)}

\* The target of the last task of ts with the given source.
LastTargetOf(ts, source) ==
    LET k == CHOOSE k \in 1..Len(ts) :
                 /\ ts[k].source = source
                 /\ \A j \in (k+1)..Len(ts) : ts[j].source # source
    IN  ts[k].target

(***************************************************************************)
(* check_zip on any archive: verify(archive, tasks, missing)               *)
(***************************************************************************)

VerifyTasks ==
    {Task(s, t) : s \in {srcDir, srcFile, srcAbsent},
                  t \in {<<>>, <<"m", "/">>, <<"m", "/", "/">>}}

\* The number of entries of an archive given to check_zip.
MaxListing == 2
VerifyNames ==
    { <<"d", "/", "g">>, <<"m", "/">>, <<"m", "/", "g">>, <<"f", ".", "t">>,
      <<"m", "/", "/">> }

VerifyInit ==
    /\ pc = "check_list"
    /\ tasks \in TaskLists(VerifyTasks)
    /\ fs = World
    /\ \E names \in {l \in SUBSET VerifyNames : Cardinality(l) <= MaxListing},
          st \in {"valid", "corrupt"} :
            zipFile = [state |-> st,
                       entries |-> [k \in 1..Cardinality(names) |->
                                       Entry(SeqOfSet(names)[k], 0)]]
    /\ \E M \in SUBSET SourcesOf(tasks) :
            missing_items = [s \in M |-> LastTargetOf(tasks, s)]
    /\ idx = 0
    /\ zip_files = {}
    /\ check_result = "none"
    /\ faults = 0
    /\ log = <<>>
    /\ sync_tasks = <<>>
    /\ outputfolder = None
    /\ arg = None
    /\ ret = None

VerifyNext == GetFileList \/ CheckTask \/ CheckEnd

SpecVerify == VerifyInit /\ [][VerifyNext]_vars

\* The iterations of check_zip's loop so far.
CheckLog == {k \in 1..Len(log) : log[k].step = "check"}

\* C3: a task whose source is in the missing-item set is skipped by verify,
\* whatever the disk and the archive hold for it, and is never the task at
\* which verify returns false.
C3_MissingSuppression ==
    /\ \A k \in CheckLog :
          tasks[log[k].idx].source \in DOMAIN missing_items
              => log[k].outcome = "skipped"
    /\ check_result = "false" =>
          /\ log # <<>>
          /\ log[Len(log)].outcome = "failed"
          /\ tasks[log[Len(log)].idx].source \notin DOMAIN missing_items

\* verify returned true although the archive lacks what a missing task
\* would have been checked for.
C3_Witness ==
    /\ pc = "done"
    /\ check_result = "true"
    /\ \E k \in 1..Len(tasks) :
          /\ tasks[k].source \in DOMAIN missing_items
          /\ CheckOutcome(fs, zip_files, <<>>, tasks[k]) = "failed"

\* The last path component of a source, the whole string when it has none.
LastComponentOf(source) ==
    IF FileName(source) = None THEN source ELSE FileName(source)

RECURSIVE StripTrailingSeparators(_)
StripTrailingSeparators(s) ==
    IF s # <<>> /\ s[Len(s)] = "/"
    THEN StripTrailingSeparators(SubSeq(s, 1, Len(s) - 1))
    ELSE s

\* Whether the present-set holds the entry or a path that starts with it.
PresentOrPrefix(files, entry) ==
    \/ entry \in files
    \/ \E p \in files : Len(p) >= Len(entry) /\ SubSeq(p, 1, Len(entry)) = entry

\* The checked directory tasks: directory sources that are not missing.
DirChecks ==
    {k \in CheckLog : /\ tasks[log[k].idx].source \notin DOMAIN missing_items
                      /\ IsDir(fs, tasks[log[k].idx].source)}

StoreMissingNothing(missing, task) == missing

\* A mutation: a source that already has a record keeps its first target.
StoreMissingKeepFirst(missing, task) ==
    [s \in DOMAIN missing \cup {task.source} |->
        IF s \in DOMAIN missing THEN missing[s] ELSE task.target]

\* store_missing: HashMap::insert(source, target).
StoreMissing(missing, task) ==
    [s \in DOMAIN missing \cup {task.source} |->
        IF s = task.source THEN task.target ELSE missing[s]]

\* add_file_to_zip with every write succeeding: the parent directory of
\* the archive path, when it has one, then the file.
AddFileToZip(f, file_path, zip_path) ==
    LET parent == Parent(zip_path)
    IN  (IF parent # None /\ parent # <<>>
         THEN <<AddDirectoryEntry(parent \o Slash)>> ELSE <<>>)
        \o <<Entry(zip_path, Stat(f, file_path).content)>>

\* A mutation: read_dir lists the files only.
ChildrenFilesOnly(f, dir) ==
    {p \in DOMAIN f : /\ Len(p) = Len(dir) + 1 /\ SubSeq(p, 1, Len(dir)) = dir
                      /\ f[p].kind = "file"}

\* The entries of a directory: fs::read_dir.
Children(f, dir) ==
    {p \in DOMAIN f : Len(p) = Len(dir) + 1 /\ SubSeq(p, 1, Len(dir)) = dir}

\* add_directory_recursively with every write succeeding: the sequences of
\* entries it may write, one for each order read_dir may list a directory.
RECURSIVE AddDirectoryRecursively(_, _, _)
AddDirectoryRecursively(f, base_path, zip_base) ==
    LET zip_path(p) == IF EndsWith(zip_base, "/") THEN zip_base \o p[Len(p)]
                       ELSE zip_base \o Slash \o p[Len(p)]
        OfEntry(p) ==
            IF f[p].kind = "dir"
            THEN {<<AddDirectoryEntry(zip_path(p) \o Slash)>> \o rest :
                    rest \in AddDirectoryRecursively(f, p, zip_path(p))}
            ELSE IF f[p].kind = "file"
            THEN {<<Entry(zip_path(p), f[p].content)>>}
            ELSE {<<>>}
        OfOrder(order) ==
            LET F[k \in 0..Len(order)] ==
                    IF k = 0 THEN {<<>>}
                    ELSE {a \o b : a \in F[k-1], b \in OfEntry(order[k])}
            IN  F[Len(order)]
    IN  UNION {OfOrder(order) : order \in Perms(Children(f, base_path))}

\* A mutation: the target prefix is ignored.
TargetDirNameIgnoringPrefix(dir_path, target_prefix) ==
    IF FileName(dir_path) = None THEN dir_path ELSE FileName(dir_path)

\* add_directory's target_dir_name.
TargetDirName(dir_path, target_prefix) ==
    IF target_prefix = <<>>
    THEN (IF FileName(dir_path) = None THEN dir_path ELSE FileName(dir_path))
    ELSE target_prefix

\* add_directory with every write succeeding.
AddDirectory(f, dir_path, target_prefix) ==
    LET target_dir_name == TargetDirName(dir_path, target_prefix)
    IN  {<<AddDirectoryEntry(target_dir_name \o Slash)>> \o rest :
            rest \in AddDirectoryRecursively(f, Resolve(f, dir_path), target_dir_name)}

\* A mutation: after the entry that fails the rest is still written.
FailedThenContinued(plan) ==
    {SubSeq(plan, 1, k - 1) \o SubSeq(plan, k + 1, Len(plan)) : k \in 1..Len(plan)}

\* The proper prefixes of a plan: what is in the archive when a write or a
\* read fails part-way.
FailedPrefixes(plan) == {SubSeq(plan, 1, k) : k \in 0..(Len(plan) - 1)}

\* One iteration of create_zip's loop: what the task may write and the error
\* it is recorded with ("none" when it is added). `fault` says whether the
\* outcome takes an I/O failure.
AddOutcomes(f, task) ==
    LET out(w, e, fl) == [written |-> w, error |-> e, fault |-> fl]
    IN  IF ~Exists(f, task.source) THEN {out(<<>>, "PathNotFound", FALSE)}
        ELSE {out(<<>>, "MetadataError", TRUE)} \cup
             IF IsFile(f, task.source)
             THEN LET target_path ==
                          GetTargetFilePath(FileName(task.source), task.target)
                      plan == AddFileToZip(f, task.source, target_path)
                  IN  {out(plan, "none", FALSE)} \cup
                      {out(w, "FileCopyError", TRUE) : w \in FailedPrefixes(plan)}
             ELSE IF IsDir(f, task.source)
             THEN LET plans == AddDirectory(f, task.source, task.target)
                  IN  {out(plan, "none", FALSE) : plan \in plans} \cup
                      {out(w, "FolderCopyError", TRUE) :
                          w \in UNION {FailedPrefixes(plan) : plan \in plans}}
             ELSE {out(<<>>, "PathNotFileOrFolder", FALSE)}

\* A mutation: a failed finish is not propagated.
AfterFinishIgnoringError(ok) == "check_list"

\* `zip.finish()?`: on Ok the completed message is displayed and the
\* archive is checked; on Err create_zip returns and start panics.
AfterFinish(ok) == IF ok THEN "check_list" ELSE "aborted"

\* The number of I/O failures a run may suffer.
MaxFaults == 1

PackTasks ==
    {Task(s, t) : s \in {srcFile, srcDir, srcDirSlash, srcAbsent, srcOther},
                  t \in {<<>>, <<"m", "/">>, <<"m">>, <<"m", ".", "t">>}}

Init ==
    /\ pc = "start"
    /\ tasks \in TaskLists(PackTasks)
    /\ fs = World
    /\ zipFile \in {[state |-> st, entries |-> <<>>] : st \in {"absent", "dir"}}
    /\ missing_items = <<>>
    /\ idx = 0
    /\ zip_files = {}
    /\ check_result = "none"
    /\ faults \in 0..MaxFaults
    /\ log = <<>>
    /\ sync_tasks = <<>>
    /\ outputfolder = None
    /\ arg = None
    /\ ret = None

\* File::create(&zip_file_path)?: a directory cannot be created as a file.
CreateZipFile ==
    /\ pc = "start"
    /\ \/ /\ zipFile.state # "dir"
          /\ zipFile' = [state |-> "writing", entries |-> <<>>]
          /\ pc' = "build"
          /\ idx' = 1
          /\ UNCHANGED faults
       \/ /\ zipFile.state = "dir" \/ faults > 0
          /\ faults' = IF zipFile.state = "dir" THEN faults ELSE faults - 1
          /\ pc' = "aborted"
          /\ UNCHANGED <<zipFile, idx>>
    /\ UNCHANGED <<tasks, fs, missing_items, zip_files, check_result, log,
                   sync_tasks, outputfolder, arg, ret>>

AddTask ==
    /\ pc = "build"
    /\ idx <= Len(tasks)
    /\ \E o \in AddOutcomes(fs, tasks[idx]) :
          /\ o.fault => faults > 0
          /\ faults' = IF o.fault THEN faults - 1 ELSE faults
          /\ zipFile' = [zipFile EXCEPT !.entries = @ \o o.written]
          /\ missing_items' = IF o.error = "none" THEN missing_items
                              ELSE StoreMissing(missing_items, tasks[idx])
          /\ log' = Append(log, [step |-> "add", idx |-> idx, outcome |-> o.error])
    /\ idx' = idx + 1
    /\ UNCHANGED <<pc, tasks, fs, zip_files, check_result, sync_tasks,
                   outputfolder, arg, ret>>

Finish ==
    /\ pc = "build"
    /\ idx > Len(tasks)
    /\ \E ok \in BOOLEAN :
          /\ ~ok => faults > 0
          /\ faults' = IF ok THEN faults ELSE faults - 1
          /\ zipFile' = [zipFile EXCEPT !.state = IF ok THEN "valid" ELSE "corrupt"]
          /\ pc' = AfterFinish(ok)
    /\ UNCHANGED <<tasks, fs, missing_items, idx, zip_files, check_result, log,
                   sync_tasks, outputfolder, arg, ret>>

Next == CreateZipFile \/ AddTask \/ Finish \/ GetFileList \/ CheckTask \/ CheckEnd

Spec == Init /\ [][Next]_vars

\* The iterations of create_zip's loop so far.
AddLog == {k \in 1..Len(log) : log[k].step = "add"}

\* C1: when the build recorded no task as missing, verify returns true on
\* the archive the build produced (for every target shape and for file and
\* directory sources), unless the archive cannot be read back.
C1_Completeness ==
    (pc = "done" /\ DOMAIN missing_items = {} /\ check_result # "err")
        => check_result = "true"

\* A directory with a separator-terminated target and a file with an
\* extensionless target were built without a missing item and verified.
C1_Witness ==
    /\ pc = "done"
    /\ tasks = <<Task(srcDir, <<"m", "/">>), Task(srcFile, <<"m">>)>>
    /\ DOMAIN missing_items = {}
    /\ \A k \in 1..Len(tasks) : \E j \in AddLog : log[j].idx = k /\ log[j].outcome = "none"
    /\ check_result = "true"

\* C7: a task that fails with one of the five per-task errors has its
\* source in the missing-item set; the loop takes the tasks in list order
\* whatever their outcomes, and the archive is finalized after the last.
C7_PerTaskErrorsNonFatal ==
    /\ \A k \in AddLog :
          /\ log[k].idx = k
          /\ log[k].outcome \in {"none", "PathNotFound", "MetadataError",
                                 "PathNotFileOrFolder", "FileCopyError",
                                 "FolderCopyError"}
          /\ log[k].outcome # "none" => tasks[k].source \in DOMAIN missing_items
    /\ pc = "build" => Cardinality(AddLog) = idx - 1
    /\ (pc = "build" /\ idx > Len(tasks)) => ENABLED Finish
    /\ zipFile.state \in {"valid", "corrupt"} => Cardinality(AddLog) = Len(tasks)

\* The first task failed while it was copied, the second was added after
\* it, and the archive was finalized.
C7_Witness ==
    /\ Len(tasks) = 2
    /\ Len(log) >= 2
    /\ log[1].step = "add" /\ log[1].outcome = "FolderCopyError"
    /\ log[2].step = "add" /\ log[2].outcome = "none"
    /\ tasks[1].source \in DOMAIN missing_items
    /\ zipFile.state = "valid"

\* C8: when the archive file cannot be created no task is processed and
\* nothing is recorded as missing; when finalizing fails the verifier does
\* not run; so verification runs only on a finalized archive.
C8_FatalPackErrors ==
    /\ zipFile.state \in {"absent", "dir"} =>
          /\ log = <<>>
          /\ DOMAIN missing_items = {}
          /\ pc \in {"start", "aborted"}
    /\ pc = "aborted" =>
          /\ check_result = "none"
          /\ zip_files = {}
          /\ \A k \in 1..Len(log) : log[k].step # "check"
    /\ (pc \in {"check_list", "check", "done"} \/ check_result # "none"
            \/ \E k \in 1..Len(log) : log[k].step = "check")
          => zipFile.state = "valid"

\* Finalizing failed after both tasks had been processed.
C8_Witness ==
    /\ pc = "aborted"
    /\ zipFile.state = "corrupt"
    /\ Cardinality(AddLog) = 2
    /\ check_result = "none"

(***************************************************************************)
(* Writing to the filesystem                                               *)
(***************************************************************************)

WithNode(f, p, n) == [q \in DOMAIN f \cup {p} |-> IF q = p THEN n ELSE f[q]]

\* fs::create_dir_all below cur: every directory that does not exist is
\* created; a component that is no directory fails the call, and what was
\* created before it stays.
RECURSIVE MkDirs(_, _, _)
MkDirs(f, cur, segs) ==
    IF segs = <<>> THEN [fs |-> f, ok |-> TRUE]
    ELSE LET g == Head(segs)
         IN  IF g = <<>> \/ g = <<".">> THEN MkDirs(f, cur, Tail(segs))
             ELSE IF g = <<".", ".">>
                  THEN MkDirs(f, IF cur = <<>> THEN cur
                                 ELSE SubSeq(cur, 1, Len(cur) - 1), Tail(segs))
             ELSE LET p == Append(cur, g)
                      n == NodeAt(f, p)
                  IN  IF n.kind = "dir" THEN MkDirs(f, p, Tail(segs))
                      ELSE IF n.kind = "absent"
                           THEN MkDirs(WithNode(f, p, Dir), p, Tail(segs))
                      ELSE [fs |-> f, ok |-> FALSE]

CreateDirAll(f, s) ==
    IF s = <<>> THEN [fs |-> f, ok |-> TRUE]
    ELSE MkDirs(f, IF HasRoot(s) THEN <<>> ELSE Cwd, Split(s))

\* File::create and the write of the content: the directory of the path
\* must exist and the path must not name a directory.
WriteFile(f, s, c) ==
    LET p == Resolve(f, s)
    IN  IF p = ENOENT \/ p = <<>> \/ NodeAt(f, p).kind \notin {"absent", "file"}
        THEN [fs |-> f, ok |-> FALSE]
        ELSE [fs |-> WithNode(f, p, File(c)), ok |-> TRUE]

\* The paths below a directory, the shorter first.
Below(f, dir) ==
    {p \in DOMAIN f : Len(p) > Len(dir) /\ SubSeq(p, 1, Len(dir)) = dir}

RECURSIVE ByLength(_)
ByLength(S) ==
    IF S = {} THEN <<>>
    ELSE LET x == CHOOSE x \in S : \A y \in S : Len(x) <= Len(y)
         IN  <<x>> \o ByLength(S \ {x})

\* fs_extra::dir::copy(from, to) with overwrite and copy_inside, `to`
\* existing: the directory is copied to to/<name of from>, merged into what
\* is there; directories are created first, then the files are copied.
DirCopy(f, from, to) ==
    LET dest == Append(to, from[Len(from)])
        rel(p) == SubSeq(p, Len(from) + 1, Len(p))
        items == <<from>> \o ByLength({p \in Below(f, from) : f[p].kind = "dir"})
                         \o ByLength({p \in Below(f, from) : f[p].kind = "file"})
        Put(g, p) ==
            LET q == dest \o rel(p)
                n == NodeAt(g, q)
            IN  IF f[p].kind = "dir"
                THEN (IF n.kind = "dir" THEN [fs |-> g, ok |-> TRUE]
                      ELSE IF n.kind = "absent"
                           THEN [fs |-> WithNode(g, q, Dir), ok |-> TRUE]
                      ELSE [fs |-> g, ok |-> FALSE])
                ELSE (IF n.kind \in {"absent", "file"}
                      THEN [fs |-> WithNode(g, q, f[p]), ok |-> TRUE]
                      ELSE [fs |-> g, ok |-> FALSE])
        F[k \in 0..Len(items)] ==
            IF k = 0 THEN [fs |-> f, ok |-> TRUE]
            ELSE CHOOSE x \in {IF prev.ok THEN Put(prev.fs, items[k]) ELSE prev :
                                  prev \in {F[k-1]}} : TRUE
    IN  F[Len(items)]

(***************************************************************************)
(* ZipReaderController: extracting the archive and syncing it back         *)
(***************************************************************************)

\* config.zip_path.
ZipPath == <<"z", ".", "z">>

\* extract_zip_to_folder's output_folder: the archive's directory joined
\* with the archive's file stem.
OutputFolder ==
    Join(IF Parent(ZipPath) = None THEN <<".">> ELSE Parent(ZipPath),
         IF FileStem(ZipPath) = None THEN <<>> ELSE FileStem(ZipPath))

\* A mutation: the archive path is not tested before the output folder is
\* created.
ZipFileFoundAlways(z) == TRUE

\* zip_path.exists() && zip_path.is_file().
ZipFileFound(z) == z.state \notin {"absent", "dir"}

\* Ok(()) of an io::Result and the filesystem it leaves.
Done(f) == [fs |-> f, ok |-> TRUE]

\* `step?`: the step is taken when what came before succeeded.
AndThenWriteFile(mk, s, c) == IF mk.ok THEN WriteFile(mk.fs, s, c) ELSE mk

\* One iteration of the extraction loop.
ExtractFileEntry(f, out_path, parent, c) ==
    AndThenWriteFile(IF parent # None THEN CreateDirAll(f, parent) ELSE Done(f),
                     out_path, c)

ExtractEntry(f, e, out_path) ==
    IF EntryIsDir(e) THEN CreateDirAll(f, out_path)
    ELSE ExtractFileEntry(f, out_path, Parent(out_path), e.content)

\* The first n iterations of the extraction loop, up to the first that
\* fails.
RECURSIVE ExtractEntries(_, _, _)
ExtractEntries(mk, entries, n) ==
    IF n = 0 THEN mk
    ELSE CHOOSE x \in
            {IF prev.ok
             THEN ExtractEntry(prev.fs, entries[n], Join(OutputFolder, entries[n].name))
             ELSE prev : prev \in {ExtractEntries(mk, entries, n - 1)}} : TRUE

\* Opening the archive and reading its entries; failAt = k > 0: reading
\* entry k fails (archive.by_index(k)?), failAt = 0: every read succeeds.
ReadArchive(mk, z, failAt) ==
    IF ~mk.ok \/ z.state # "valid" THEN [fs |-> mk.fs, ok |-> FALSE]
    ELSE IF failAt = 0 THEN ExtractEntries(mk, z.entries, Len(z.entries))
    ELSE [ExtractEntries(mk, z.entries, failAt - 1) EXCEPT !.ok = FALSE]

ExtractResult(x) == [fs |-> x.fs, result |-> IF x.ok THEN "ok" ELSE "io_error"]

\* extract_zip_to_folder.
ExtractZipToFolder(f, z, failAt) ==
    IF ~ZipFileFound(z) THEN [fs |-> f, result |-> "not_found"]
    ELSE ExtractResult(
            ReadArchive(IF ~Exists(f, OutputFolder) THEN CreateDirAll(f, OutputFolder)
                        ELSE Done(f),
                        z, failAt))

\* String::from("default_path").
DefaultPath == <<"d", "e", "f", "a", "u", "l", "t", "_", "p", "a", "t", "h">>

\* get_last_path_component.
GetLastPathComponent(path_str) ==
    LET normalized_path ==
            IF EndsWith(path_str, "/") /\ Len(path_str) > 1
            THEN SubSeq(path_str, 1, Len(path_str) - 1) ELSE path_str
        s == FileName(normalized_path)
    IN  IF s = None THEN None
        ELSE IF EndsWith(path_str, "/") THEN s \o Slash ELSE s

\* remove_last_path_component.
RemoveLastPathComponent(path_str) ==
    LET clean_path ==
            IF EndsWith(path_str, "/") /\ Len(path_str) > 1
            THEN SubSeq(path_str, 1, Len(path_str) - 1) ELSE path_str
        p == Parent(clean_path)
    IN  IF p = None THEN None
        ELSE IF EndsWith(p, "/") THEN p ELSE p \o Slash

SyncTask(zip_path, extract_path) ==
    [zip_path |-> zip_path, extract_path |-> extract_path]

\* One iteration of create_sync_tasks_from_config's loop.
SyncTaskOf(task) ==
    LET last == GetLastPathComponent(task.source)
        rest == RemoveLastPathComponent(task.source)
        zip0 == IF task.target = <<>>
                THEN (IF last = None THEN DefaultPath ELSE last)
                ELSE task.target
        extract_path ==
            IF task.target = <<>> /\ EndsWith(task.source, "/")
            THEN (IF rest = None THEN DefaultPath ELSE rest)
            ELSE task.source
        zip1 == IF StartsWith(zip0, Slash) THEN Tail(zip0) ELSE zip0
        zip_path ==
            IF /\ EndsWith(zip1, "/")
               /\ ~EndsWith(extract_path, "/")
               /\ FileName(extract_path) # None
            THEN zip1 \o FileName(extract_path) ELSE zip1
    IN  SyncTask(zip_path, extract_path)

\* A mutation: the target directory is created before the staging path is
\* looked at.
SkipCreatingTarget(f, extract_path) == CreateDirAll(f, extract_path).fs

\* What the skipped iteration of sync_files leaves of the filesystem.
Skip(f, extract_path) == f

\* One iteration of sync_files's loop on the staging root `out`. The sources
\* of the tasks are not empty. "panicked": an expect() failed.
SyncOutcome(f, out, st) ==
    LET res(g, r) == [fs |-> g, result |-> r]
        zip_path == Join(out, st.zip_path)
    IN  IF ~Exists(f, zip_path) THEN res(Skip(f, st.extract_path), "skipped")
        ELSE IF IsFile(f, zip_path)
        THEN LET extract_path ==
                     IF /\ Exists(f, st.extract_path)
                        /\ IsDir(f, st.extract_path)
                        /\ FileName(zip_path) # None
                     THEN Join(st.extract_path, FileName(zip_path))
                     ELSE st.extract_path
                 parent == Parent(extract_path)
                 mk == IF parent # None THEN CreateDirAll(f, parent)
                       ELSE [fs |-> f, ok |-> TRUE]
                 cp == WriteFile(mk.fs, extract_path, Stat(f, zip_path).content)
             IN  IF ~mk.ok THEN res(mk.fs, "panicked")
                 ELSE IF ~cp.ok THEN res(cp.fs, "panicked")
                 ELSE res(cp.fs, "copied")
        ELSE IF IsDir(f, zip_path)
        THEN LET mk == CreateDirAll(f, st.extract_path)
                 cp == DirCopy(mk.fs, Resolve(mk.fs, zip_path),
                               Resolve(mk.fs, st.extract_path))
             IN  IF ~mk.ok THEN res(mk.fs, "panicked")
                 ELSE IF ~cp.ok THEN res(cp.fs, "panicked")
                 ELSE res(cp.fs, "copied")
        ELSE res(f, "neither")

\* create_zip run to its end with every write and read succeeding: the
\* archives it may leave at config.zip_path.
RECURSIVE BuildFrom(_, _, _, _)
BuildFrom(f, ts, k, entries) ==
    IF k > Len(ts) THEN {entries}
    ELSE UNION {BuildFrom(f, ts, k + 1, entries \o o.written) :
                    o \in {o \in AddOutcomes(f, ts[k]) : ~o.fault}}

\* The machine the archive is taken to: none of the sources is there.
Elsewhere == [p \in {Cwd} |-> Dir]

UnpackTasks ==
    {Task(s, t) : s \in {srcFile, srcDir, srcAbsDirSlash, srcAbsent},
                  t \in {<<>>, <<"m", "/">>, <<"m">>, <<"m", ".", "t">>}}

UnpackInit ==
    /\ pc = "to_zip"
    /\ tasks \in TaskLists(UnpackTasks)
    /\ fs = World
    /\ zipFile \in {[state |-> st, entries |-> <<>>] : st \in {"absent", "dir", "corrupt"}}
    /\ missing_items = <<>>
    /\ idx = 0
    /\ zip_files = {}
    /\ check_result = "none"
    /\ faults \in 0..MaxFaults
    /\ log = <<>>
    /\ sync_tasks = <<>>
    /\ outputfolder = None
    /\ arg = None
    /\ ret = None

\* An earlier run with direction "to_zip" that built the archive.
PackAll ==
    /\ pc = "to_zip"
    /\ zipFile.state # "dir"
    /\ \E entries \in BuildFrom(fs, tasks, 1, <<>>) :
          zipFile' = [state |-> "valid", entries |-> entries]
    /\ pc' = "from_zip"
    /\ UNCHANGED <<tasks, fs, missing_items, idx, zip_files, check_result,
                   faults, log, sync_tasks, outputfolder, arg, ret>>

\* Between the two runs the archive is taken to where the sources are gone.
Relocate ==
    /\ pc = "from_zip"
    /\ fs = World
    /\ fs' = Elsewhere
    /\ UNCHANGED <<pc, tasks, zipFile, missing_items, idx, zip_files,
                   check_result, faults, log, sync_tasks, outputfolder, arg, ret>>

\* ZipReaderController::start up to the result of extract_zip_to_folder.
Extract ==
    /\ pc \in {"to_zip", "from_zip"}
    /\ \E failAt \in 0..Len(zipFile.entries) :
          /\ failAt > 0 => faults > 0
          /\ faults' = IF failAt > 0 THEN faults - 1 ELSE faults
          /\ \E x \in {ExtractZipToFolder(fs, zipFile, failAt)} :
                 /\ fs' = x.fs
                 /\ log' = Append(log, [step |-> "extract", idx |-> 0,
                                        outcome |-> x.result])
                 /\ outputfolder' = IF x.result = "ok" THEN OutputFolder ELSE None
                 /\ pc' = IF x.result = "ok" THEN "create_sync_tasks" ELSE "returned"
    /\ UNCHANGED <<tasks, zipFile, missing_items, idx, zip_files, check_result,
                   sync_tasks, arg, ret>>

CreateSyncTasksFromConfig ==
    /\ pc = "create_sync_tasks"
    /\ sync_tasks' = [k \in 1..Len(tasks) |-> SyncTaskOf(tasks[k])]
    /\ idx' = 1
    /\ pc' = "sync"
    /\ UNCHANGED <<tasks, fs, zipFile, missing_items, zip_files, check_result,
                   faults, log, outputfolder, arg, ret>>

\* One iteration of sync_files's loop.
SyncFile ==
    /\ pc = "sync"
    /\ idx <= Len(sync_tasks)
    /\ \E x \in {SyncOutcome(fs, outputfolder, sync_tasks[idx])} :
           /\ fs' = x.fs
           /\ log' = Append(log, [step |-> "sync", idx |-> idx, outcome |-> x.result])
           /\ pc' = IF x.result = "panicked" THEN "panicked" ELSE "sync"
           /\ idx' = IF x.result = "panicked" THEN idx ELSE idx + 1
    /\ UNCHANGED <<tasks, zipFile, missing_items, zip_files, check_result,
                   faults, sync_tasks, outputfolder, arg, ret>>

SyncEnd ==
    /\ pc = "sync"
    /\ idx > Len(sync_tasks)
    /\ pc' = "returned"
    /\ UNCHANGED <<tasks, fs, zipFile, missing_items, idx, zip_files,
                   check_result, faults, log, sync_tasks, outputfolder, arg, ret>>

UnpackNext ==
    PackAll \/ Relocate \/ Extract \/ CreateSyncTasksFromConfig \/ SyncFile \/ SyncEnd

SpecUnpack == UnpackInit /\ [][UnpackNext]_vars

\* The iterations of sync_files's loop so far.
SyncLog == {k \in 1..Len(log) : log[k].step = "sync"}

\* The run extracted the archive an earlier run had built, and sync_files
\* returned.
UnpackedBuiltArchive ==
    /\ pc = "returned"
    /\ zipFile.state = "valid"
    /\ log # <<>>
    /\ log[1].step = "extract" /\ log[1].outcome = "ok"

\* The files below a source (the source itself when it is a file).
FilesUnder(f, source) ==
    {p \in DOMAIN f : /\ f[p].kind = "file"
                      /\ Resolve(f, source) # ENOENT
                      /\ StartsWith(p, Resolve(f, source))}

\* C2: after build, extract and reverse sync with the same task list, every
\* file that was below a task's source at build time is at its original
\* path with its content.
C2_RoundTrip ==
    UnpackedBuiltArchive =>
        \A k \in 1..Len(tasks) :
            \A p \in FilesUnder(World, tasks[k].source) : NodeAt(fs, p) = World[p]

\* C9: when the archive path does not exist or is no regular file, extract
\* returns its error with the filesystem untouched (no staging root), and
\* the run returns without sync tasks and without a sync iteration; the run
\* also returns without them on any other extraction error.
C9_ExtractionFailureFatal ==
    \A k \in 1..Len(log) :
        log[k].step = "extract" =>
            /\ zipFile.state \in {"absent", "dir"} =>
                  /\ log[k].outcome = "not_found"
                  /\ fs = World
                  /\ ~Exists(fs, OutputFolder)
            /\ log[k].outcome # "ok" =>
                  /\ pc = "returned"
                  /\ sync_tasks = <<>>
                  /\ outputfolder = None
                  /\ SyncLog = {}

\* The archive path is a directory and the run has returned.
C9_Witness ==
    /\ zipFile.state = "dir"
    /\ pc = "returned"
    /\ Len(log) = 1
    /\ log[1].outcome = "not_found"
    /\ tasks # <<>>

\* The task sync_files is at has no staging path.
C10_StagingPathMissing ==
    /\ pc = "sync"
    /\ idx <= Len(sync_tasks)
    /\ ~Exists(fs, Join(outputfolder, sync_tasks[idx].zip_path))

\* C10: an iteration of reverse sync on a task whose staging path does not
\* exist leaves the filesystem as it is and goes on to the next task; a
\* sync that returns has taken every task.
C10_ReverseSyncSkip ==
    /\ [][C10_StagingPathMissing =>
            /\ fs' = fs
            /\ pc' = "sync"
            /\ idx' = idx + 1
            /\ log'[Len(log')].outcome = "skipped"]_vars
    /\ [](UnpackedBuiltArchive => Cardinality(SyncLog) = Len(tasks))

\* The first task was skipped and the second was copied after it.
C10_Witness ==
    /\ pc = "returned"
    /\ Len(log) = 3
    /\ log[2].step = "sync" /\ log[2].outcome = "skipped"
    /\ log[3].step = "sync" /\ log[3].outcome = "copied"
    /\ \E p \in DOMAIN fs : p \notin DOMAIN Elsewhere /\ ~StartsWith(p, Resolve(fs, OutputFolder))

\* C11: once extraction has succeeded, every iteration of reverse sync goes
\* on to the next task, whatever its outcome, so that the loop reaches the
\* end of the task list.
C11_AlwaysCompletes ==
    [][(pc = "sync" /\ idx <= Len(sync_tasks)) =>
            (pc' = "sync" /\ idx' = idx + 1)]_vars

(***************************************************************************)
(* Config::clean, as MainController::read_config applies it                *)
(***************************************************************************)

\* The body of clean's loop: one leading '/' is removed.
CleanTarget(target) ==
    IF StartsWith(target, Slash) THEN Tail(target) ELSE target

Clean(copy_tasks) ==
    [k \in 1..Len(copy_tasks) |->
        [copy_tasks[k] EXCEPT !.target = CleanTarget(@)]]

\* The targets a configuration file may hold.
RawTargets == StringsUpTo({"m", "/"}, MaxTargetLen)

CleanInit ==
    /\ pc = "read_config"
    /\ arg \in TaskLists({Task(srcFile, t) : t \in RawTargets})
    /\ ret = None
    /\ ProgIdle

\* read_config: the parsed configuration is cleaned and handed on.
ReadConfig ==
    /\ pc = "read_config"
    /\ tasks' = Clean(arg)
    /\ pc' = "cleaned"
    /\ UNCHANGED <<fs, zipFile, missing_items, idx, zip_files, check_result,
                   faults, log, sync_tasks, outputfolder, arg, ret>>

CleanNext == ReadConfig

SpecClean == CleanInit /\ [][CleanNext]_vars

\* C12: after the configuration is cleaned, a non-empty target has no
\* leading separator, and cleaning it again changes nothing.
C12_TargetNormalized ==
    pc = "cleaned" =>
        /\ \A k \in 1..Len(tasks) :
              tasks[k].target # <<>> => tasks[k].target[1] # "/"
        /\ Clean(tasks) = tasks

(***************************************************************************)
(* The build on cleaned configurations whose targets were written with     *)
(* leading separators or a backslash                                       *)
(***************************************************************************)

PathsRawTargets ==
    {<<>>, <<"/", "m">>, <<"/", "/", "m">>, <<"\\", "m">>}

PathsTasks ==
    {Task(s, CleanTarget(t)) : s \in {srcFile, srcDir}, t \in PathsRawTargets}

PathsInit ==
    /\ pc = "start"
    /\ tasks \in TaskLists(PathsTasks)
    /\ fs = World
    /\ zipFile \in {[state |-> st, entries |-> <<>>] : st \in {"absent", "dir"}}
    /\ missing_items = <<>>
    /\ idx = 0
    /\ zip_files = {}
    /\ check_result = "none"
    /\ faults \in 0..MaxFaults
    /\ log = <<>>
    /\ sync_tasks = <<>>
    /\ outputfolder = None
    /\ arg = None
    /\ ret = None

SpecPaths == PathsInit /\ [][Next]_vars

\* A relative forward-slash path: no leading separator, no backslash, no
\* drive letter.
RelativeForwardSlash(name) ==
    /\ name # <<>>
    /\ name[1] # "/"
    /\ \A i \in 1..Len(name) : name[i] # "\\"
    /\ ~(Len(name) >= 2 /\ name[2] = ":")

\* C13: every entry path the builder writes for a cleaned task list is a
\* relative forward-slash path.
C13_ArchivePaths ==
    \A k \in 1..Len(zipFile.entries) :
        RelativeForwardSlash(zipFile.entries[k].name)

(***************************************************************************)
(* The from_zip run where an earlier archive of the same name has been     *)
(* extracted before                                                        *)
(***************************************************************************)

\* What extracting an earlier archive, holding the one file x, has left.
EarlierArchive == [state |-> "valid", entries |-> <<Entry(<<"x">>, 3)>>]
WorldWithStaging == ExtractZipToFolder(World, EarlierArchive, 0).fs

StagingInit ==
    /\ pc = "to_zip"
    /\ tasks \in TaskLists(UnpackTasks)
    /\ fs \in {World, WorldWithStaging}
    /\ zipFile \in {[state |-> st, entries |-> <<>>] : st \in {"absent", "dir"}}
    /\ missing_items = <<>>
    /\ idx = 0
    /\ zip_files = {}
    /\ check_result = "none"
    /\ faults \in 0..MaxFaults
    /\ log = <<>>
    /\ sync_tasks = <<>>
    /\ outputfolder = None
    /\ arg = None
    /\ ret = None

SpecStaging == StagingInit /\ [][UnpackNext]_vars

\* The paths an entry name stands for below a root: the entry and its
\* parent directories.
PathsOfEntry(root, name) ==
    {root \o SubSeq(Components(name), 1, n) : n \in 1..Len(Components(name))}

\* C14: after a successful extract the paths below the staging root are
\* exactly the archive's entries and their parent directories, and each
\* file has the content of its entry.
C14_StagingMirrorsArchive ==
    (pc = "create_sync_tasks") =>
        LET root == Resolve(fs, OutputFolder)
        IN  /\ Below(fs, root) =
                  UNION {PathsOfEntry(root, zipFile.entries[k].name) :
                            k \in 1..Len(zipFile.entries)}
            /\ \A k \in 1..Len(zipFile.entries) :
                  ~EntryIsDir(zipFile.entries[k]) =>
                      NodeAt(fs, root \o Components(zipFile.entries[k].name))
                          = File(zipFile.entries[k].content)

(***************************************************************************)
(* The inverse mapping of create_sync_tasks_from_config on its own         *)
(***************************************************************************)

InverseTasks ==
    {Task(s, CleanTarget(t)) : s \in {srcFile, srcDir, srcDirSlash, srcAbsDirSlash},
                               t \in MapTargets}

InverseInit ==
    /\ pc = "invert"
    /\ arg \in InverseTasks
    /\ ret = None
    /\ tasks = <<>>
    /\ fs = World
    /\ zipFile = [state |-> "absent", entries |-> <<>>]
    /\ missing_items = <<>>
    /\ idx = 0
    /\ zip_files = {}
    /\ check_result = "none"
    /\ faults = 0
    /\ log = <<>>
    /\ sync_tasks = <<>>
    /\ outputfolder = None

InverseCall ==
    /\ pc = "invert"
    /\ ret' = SyncTaskOf(arg)
    /\ pc' = "inverted"
    /\ UNCHANGED <<arg, progVars>>

InverseNext == InverseCall

SpecInverse == InverseInit /\ [][InverseNext]_vars

\* C15: the archive path reverse sync looks up for a task is the archive
\* path the build writes for it: the forward file mapping for a file
\* source, the directory base (up to a trailing separator) for a directory
\* source.
C15_InverseAgreesWithForward ==
    pc = "inverted" =>
        /\ IsFile(fs, arg.source) =>
              ret.zip_path = GetTargetFilePath(FileName(arg.source), arg.target)
        /\ IsDir(fs, arg.source) =>
              StripTrailingSeparators(ret.zip_path)
                  = StripTrailingSeparators(TargetDirName(arg.source, arg.target))

\* The source without one trailing separator.
WithoutTrailingSeparator(s) ==
    IF EndsWith(s, "/") /\ Len(s) > 1 THEN SubSeq(s, 1, Len(s) - 1) ELSE s

\* The ways to write the path that is left of a source when its last
\* component is taken away.
Remainders(source) ==
    LET p == Parent(WithoutTrailingSeparator(source))
    IN  IF p = <<>> THEN {<<>>, <<".">>, <<".", "/">>}
        ELSE IF EndsWith(p, "/") THEN {p}
        ELSE {p, p \o <<"/">>}

\* C16: for a task with an empty target the archive base is the last path
\* component of the source and the extract path is the source without that
\* component, with or without a trailing separator on the source.
C16_EmptyTargetInverse ==
    (pc = "inverted" /\ arg.target = <<>>) =>
        /\ StripTrailingSeparators(ret.zip_path)
              = FileName(WithoutTrailingSeparator(arg.source))
        /\ ret.extract_path \in Remainders(arg.source)

(***************************************************************************)
(* The build of directory tasks on a deeper tree                           *)
(***************************************************************************)

\* World, with the file h in d/s and the empty directory d/e.
DeepWorld ==
    World @@
    ( << <<"w">>, <<"d">>, <<"s">>, <<"h">> >> :> File(3) ) @@
    ( << <<"w">>, <<"d">>, <<"e">> >> :> Dir )

DirTasks ==
    {Task(srcDir, <<>>), Task(srcDir, <<"m">>), Task(srcDirSlash, <<"m", "/">>)}

DirsInit ==
    /\ pc = "start"
    /\ tasks \in TaskLists(DirTasks)
    /\ fs = DeepWorld
    /\ zipFile \in {[state |-> st, entries |-> <<>>] : st \in {"absent", "dir"}}
    /\ missing_items = <<>>
    /\ idx = 0
    /\ zip_files = {}
    /\ check_result = "none"
    /\ faults \in 0..MaxFaults
    /\ log = <<>>
    /\ sync_tasks = <<>>
    /\ outputfolder = None
    /\ arg = None
    /\ ret = None

SpecDirs == DirsInit /\ [][Next]_vars

\* The components of a relative path written as a string.
RECURSIVE JoinComponents(_)
JoinComponents(r) ==
    IF Len(r) = 1 THEN r[1] ELSE r[1] \o <<"/">> \o JoinComponents(Tail(r))

\* The entry name of the descendant p of the directory dir under a base:
\* base/r, with a separator at its end for a directory.
DescendantName(f, dir, base, p) ==
    Join(base, JoinComponents(SubSeq(p, Len(dir) + 1, Len(p))))
        \o (IF f[p].kind = "dir" THEN <<"/">> ELSE <<>>)

\* The entries `new` are the forward directory mapping of the task.
ForwardDirectoryMapping(f, task, new) ==
    LET dir == Resolve(f, task.source)
        base == IF task.target # <<>> THEN task.target
                ELSE FileName(task.source)
        At(p) == {i \in 1..Len(new) : new[i].name = DescendantName(f, dir, base, p)}
    IN  /\ Len(new) = 1 + Cardinality(Below(f, dir))
        /\ new[1].name = base \o <<"/">>
        /\ \A p \in Below(f, dir) :
              /\ At(p) # {}
              /\ f[p].kind = "file" => \A i \in At(p) : new[i].content = f[p].content
              /\ \A q \in Below(f, dir) :
                    (Len(q) = Len(p) + 1 /\ StartsWith(q, p)) =>
                        \A i \in At(p), j \in At(q) : i < j

\* C17: a directory task that is added without error writes base + "/"
\* first, every descendant at base/r, and every descendant directory, an
\* empty one too, as an entry that ends with a separator and comes before
\* its children.
C17_ForwardDirectoryMapping ==
    [][(/\ pc = "build"
        /\ idx <= Len(tasks)
        /\ Len(log') = Len(log) + 1
        /\ log'[Len(log')].outcome = "none")
        => ForwardDirectoryMapping(fs, tasks[idx],
              SubSeq(zipFile'.entries, Len(zipFile.entries) + 1,
                     Len(zipFile'.entries)))]_vars

\* The directory d was added under the base m with the file of its
\* subdirectory and its empty directory.
C17_Witness ==
    /\ Len(log) >= 1
    /\ log[1].step = "add" /\ log[1].outcome = "none"
    /\ tasks[1] = Task(srcDir, <<"m">>)
    /\ <<"m", "/", "s", "/", "h">> \in EntryNamesOf(zipFile.entries)
    /\ <<"m", "/", "e", "/">> \in EntryNamesOf(zipFile.entries)

\* C19: when a read or a write fails while a directory task is added, the
\* source is recorded as missing (with the task's target), the archive
\* keeps what it held and what the task had written, which is the beginning
\* of the task's entries and nothing after the failure, and the loop goes
\* on to the next task.
C19_DirectoryFailureNoRollback ==
    [][(/\ pc = "build"
        /\ idx <= Len(tasks)
        /\ Len(log') = Len(log) + 1
        /\ log'[Len(log')].outcome = "FolderCopyError")
        => /\ tasks[idx].source \in DOMAIN missing_items'
           /\ missing_items'[tasks[idx].source] = tasks[idx].target
           /\ \A s \in DOMAIN missing_items' :
                 s # tasks[idx].source =>
                     s \in DOMAIN missing_items /\ missing_items'[s] = missing_items[s]
           /\ Len(zipFile'.entries) >= Len(zipFile.entries)
           /\ SubSeq(zipFile'.entries, 1, Len(zipFile.entries)) = zipFile.entries
           /\ \E plan \in AddDirectory(fs, tasks[idx].source, tasks[idx].target) :
                 LET new == SubSeq(zipFile'.entries, Len(zipFile.entries) + 1,
                                   Len(zipFile'.entries))
                 IN  /\ Len(new) < Len(plan)
                     /\ new = SubSeq(plan, 1, Len(new))
           /\ pc' = "build"
           /\ idx' = idx + 1]_vars

\* The first directory task failed after it had written its base and the
\* subdirectory s, which stay in the archive without the file of s; the
\* second task was added after it.
C19_Witness ==
    /\ Len(tasks) = 2
    /\ Len(log) >= 2
    /\ log[1].step = "add" /\ log[1].outcome = "FolderCopyError"
    /\ tasks[1] = Task(srcDir, <<"m">>)
    /\ tasks[2] = Task(srcDir, <<>>)
    /\ missing_items = [s \in {srcDir} |-> <<"m">>]
    /\ log[2].step = "add" /\ log[2].outcome = "none"
    /\ <<"m", "/", "s", "/">> \in EntryNamesOf(zipFile.entries)
    /\ <<"m", "/", "s", "/", "h">> \notin EntryNamesOf(zipFile.entries)
    /\ <<"d", "/", "s", "/", "h">> \in EntryNamesOf(zipFile.entries)

\* Whether a task passes its check against the present-set: a file source
\* by its forward-mapped path, a directory source by the directory rule, a
\* source that is neither not at all.
PassesCheck(f, files, task) ==
    IF IsFile(f, task.source)
    THEN GetTargetFilePath(FileName(task.source), task.target) \in files
    ELSE IF IsDir(f, task.source)
    THEN PresentOrPrefix(files,
            IF task.target = <<>> THEN LastComponentOf(task.source) \o <<"/">>
            ELSE IF task.target[Len(task.target)] = "/" THEN task.target
            ELSE task.target \o <<"/">>)
    ELSE FALSE

\* The tasks that are not missing and do not pass.
FailingTasks ==
    {k \in 1..Len(tasks) : /\ tasks[k].source \notin DOMAIN missing_items
                           /\ ~PassesCheck(fs, zip_files, tasks[k])}

\* C18: verify returns true iff every task that is not missing passes its
\* check; it returns false at the first failing task in list order, having
\* examined the tasks up to it and none after it.
C18_VerdictAndShortCircuit ==
    (pc = "done" /\ check_result \in {"true", "false"}) =>
        /\ check_result = "true" <=> FailingTasks = {}
        /\ \A k \in 1..Len(log) : log[k].step = "check" /\ log[k].idx = k
        /\ check_result = "true" => Len(log) = Len(tasks)
        /\ check_result = "false" =>
              /\ Len(log) \in FailingTasks
              /\ \A k \in FailingTasks : Len(log) <= k

\* verify returned false at a first task that does not exist and is not
\* missing, and did not examine the second task, which fails as well.
C18_Witness ==
    /\ pc = "done"
    /\ check_result = "false"
    /\ Len(tasks) = 2
    /\ Len(log) = 1
    /\ tasks[1].source = srcAbsent
    /\ FailingTasks = {1, 2}

\* The non-empty proper ancestor paths of an entry path: what stands before
\* each of its inner separators.
AncestorPaths(e) ==
    {StripTrailingSeparators(d) : d \in AncestorDirs(e)} \ {<<>>}

\* C20: for any set of entry paths and any iteration order, the result of
\* reconstruction holds every entry and every non-empty proper ancestor
\* path of every entry, and it is the same set for every order.
C20_AncestorClosedOrderIndependent ==
    pc = "reconstructed" =>
        /\ arg \subseteq ret
        /\ \A e \in arg : AncestorPaths(e) \subseteq ret
        /\ \A order \in Perms(arg) : AddReconstructedDirsToFileList(arg, order) = ret

\* Two entries of the same directory: the walk of the one taken second
\* stops at once, at the directory the first walk has added.
C20_Witness ==
    /\ pc = "reconstructed"
    /\ arg = {<<"a", "/", "b", "/", "f">>, <<"a", "/", "b", "/", "g">>}
    /\ ret = arg \cup {<<"a", "/", "b">>, <<"a">>}
    /\ \E e \in arg : WalkParents(e, WalkParents(CHOOSE o \in arg : o # e, {}))
                          = WalkParents(CHOOSE o \in arg : o # e, {})

(***************************************************************************)
(* The missing items are keyed by the source string                        *)
(***************************************************************************)

\* The iterations of create_zip's loop that recorded their task as missing.
FailedAdds == {k \in AddLog : log[k].outcome # "none"}

\* The last iteration of create_zip's loop that failed on the given source.
LastFailureOf(source) ==
    CHOOSE k \in FailedAdds :
        /\ tasks[log[k].idx].source = source
        /\ \A j \in FailedAdds :
              tasks[log[j].idx].source = source => j <= k

\* C21: the missing items are keyed by the source alone. Their keys are
\* the sources of the tasks that failed during the build, one record for
\* each source, and the record holds the target of the last task that
\* failed with that source; verify skips a task exactly when its source
\* has a record, whatever the task's own target is and whether or not the
\* task itself was written to the archive.
C21_MissingKeyedBySource ==
    /\ DOMAIN missing_items = {tasks[log[k].idx].source : k \in FailedAdds}
    /\ \A s \in DOMAIN missing_items :
          missing_items[s] = tasks[log[LastFailureOf(s)].idx].target
    /\ \A k \in CheckLog :
          log[k].outcome = "skipped"
              <=> tasks[log[k].idx].source \in DOMAIN missing_items

\* Two tasks have the same source and different targets; the first was
\* written to the archive, the second failed while it was copied; the one
\* record holds the second task's target and verify skipped both tasks.
C21_Witness ==
    /\ pc = "done"
    /\ tasks = <<Task(srcDir, <<"m">>), Task(srcDir, <<>>)>>
    /\ Len(log) = 4
    /\ log[1].step = "add" /\ log[1].outcome = "none"
    /\ log[2].step = "add" /\ log[2].outcome = "FolderCopyError"
    /\ DOMAIN missing_items = {srcDir}
    /\ missing_items[srcDir] = <<>>
    /\ log[3] = [step |-> "check", idx |-> 1, outcome |-> "skipped"]
    /\ log[4] = [step |-> "check", idx |-> 2, outcome |-> "skipped"]
    /\ check_result = "true"

====
